---- MODULE Spec2Model ----
(***************************************************************************)
(* pyaff4/rdfvalue.py: the RDF value classes (RDFBytes, XSDString,         *)
(* XSDInteger, URN) and the datatype registry they populate.               *)
(*                                                                         *)
(* A Python 2 str is a sequence   of byte tokens: a printable ASCII byte   *)
(* is the one-character string, any other byte is "\xNN" (the backquote  *)
(* too, which the lexer does not take in a string).  A unicode object is a *)
(* sequence of code points (integers).  The Python library functions the   *)
(* module calls (the hex and utf8 codecs, int, str, urlparse, urlunparse,  *)
(* posixpath.normpath/join, urllib.quote) are operators that compute what  *)
(* the CPython 2.7 implementations compute.                                *)
(***************************************************************************)
EXTENDS Integers, Sequences, FiniteSets, TLC

VARIABLES self, other, aliased, last, RDF_TYPE_MAP, regLog

vars == <<self, other, aliased, last, RDF_TYPE_MAP, regLog>>

(***************************************************************************)
(* Bounds of the model.                                                    *)
(***************************************************************************)
\* longest input string (bytes, code points or characters) drawn for a value
MaxLen == 2
\* longest serialized URN the caller rebinds its variable to (Rebind)
MaxURNLen == 9
\* registrations made after module initialisation
MaxRegs == 2

(***************************************************************************)
(* Results of a call: a returned value or a raised exception.              *)
(***************************************************************************)
Ok(v) == [exc |-> "none", v |-> v]

Raise(e) == [exc |-> e]

None == [t |-> "None"]

(***************************************************************************)
(* Bytes and characters.                                                   *)
(***************************************************************************)
Printable ==
  << " ", "!", "\"", "#", "$", "%", "&", "'", "(", ")", "*", "+", ",", "-", ".",
     "/", "0", "1", "2", "3", "4", "5", "6", "7", "8", "9", ":", ";", "<", "=",
     ">", "?", "@", "A", "B", "C", "D", "E", "F", "G", "H", "I", "J", "K", "L",
     "M", "N", "O", "P", "Q", "R", "S", "T", "U", "V", "W", "X", "Y", "Z", "[",
     "\\", "]", "^", "_", "\\x60", "a", "b", "c", "d", "e", "f", "g", "h", "i", "j",
     "k", "l", "m", "n", "o", "p", "q", "r", "s", "t", "u", "v", "w", "x", "y",
     "z", "{", "|", "}", "~" >>

HexLower ==
  << "0", "1", "2", "3", "4", "5", "6", "7", "8", "9", "a", "b", "c", "d", "e", "f" >>

HexUpper ==
  << "0", "1", "2", "3", "4", "5", "6", "7", "8", "9", "A", "B", "C", "D", "E", "F" >>

\* chr(n): the byte with value n
chr(n) ==
  IF n >= 32 /\ n <= 126
    THEN Printable[n - 31]
    ELSE "\\x" \o HexLower[(n \div 16) + 1] \o HexLower[(n % 16) + 1]

OrdTable == [c \in {chr(n) : n \in 0..255} |-> CHOOSE n \in 0..255 : chr(n) = c]

\* ord(c): the value of byte c
ord(c) == OrdTable[c]

IsDigit(c) == ord(c) >= 48 /\ ord(c) <= 57

IsUpper(c) == ord(c) >= 65 /\ ord(c) <= 90

IsAlpha(c) == IsUpper(c) \/ (ord(c) >= 97 /\ ord(c) <= 122)

\* string.whitespace: space, \t, \n, \v, \f, \r
IsSpace(c) == ord(c) = 32 \/ (ord(c) >= 9 /\ ord(c) <= 13)

\* str.lower()
lower(s) == [i \in 1..Len(s) |-> IF IsUpper(s[i]) THEN chr(ord(s[i]) + 32) ELSE s[i]]

\* s[i:] with a 1-based i
From(s, i) == SubSeq(s, i, Len(s))

\* str.startswith
startswith(s, p) == Len(p) <= Len(s) /\ SubSeq(s, 1, Len(p)) = p

\* str.endswith
endswith(s, p) == Len(p) <= Len(s) /\ SubSeq(s, Len(s) - Len(p) + 1, Len(s)) = p

\* c in s
Has(s, c) == \E i \in 1..Len(s) : s[i] = c

\* the least element of a set of indices, 0 for the empty set
First(I) == IF I = {} THEN 0 ELSE CHOOSE i \in I : \A j \in I : i <= j

\* the greatest element of a set of indices, 0 for the empty set
Last(I) == IF I = {} THEN 0 ELSE CHOOSE i \in I : \A j \in I : i >= j

\* str.find(c, start): the 1-based index of the first c at or after start, 0 when absent
find(s, c, start) == First({i \in start..Len(s) : s[i] = c})

\* str.rfind(c): the 1-based index of the last c, 0 when absent
rfind(s, c) == Last({i \in 1..Len(s) : s[i] = c})

RECURSIVE split(_, _)
\* str.split(c), cut at the first c (index i)
split_at(s, c, i) ==
  IF i = 0 THEN <<s>> ELSE <<SubSeq(s, 1, i - 1)>> \o split(From(s, i + 1), c)

\* str.split(c)
split(s, c) == split_at(s, c, find(s, c, 1))

RECURSIVE joinWith(_, _)
\* c.join(comps)
joinWith(c, comps) ==
  IF comps = <<>> THEN <<>>
  ELSE IF Len(comps) = 1 THEN comps[1]
  ELSE comps[1] \o <<c>> \o joinWith(c, Tail(comps))

\* a result wrapped as the Python value it is
Str(s) == [t |-> "str", s |-> s]

Uni(u) == [t |-> "unicode", u |-> u]

Int_(n) == [t |-> "int", n |-> n]

Bool(b) == [t |-> "bool", b |-> b]

Obj(cls, value) == [t |-> cls, value |-> value]

IsOk(r) == r.exc = "none"

AsStr(r) == IF IsOk(r) THEN Ok(Str(r.v)) ELSE r

AsUni(r) == IF IsOk(r) THEN Ok(Uni(r.v)) ELSE r

AsInt(r) == IF IsOk(r) THEN Ok(Int_(r.v)) ELSE r

(***************************************************************************)
(* The "hex" codec: binascii.b2a_hex / binascii.a2b_hex.                   *)
(***************************************************************************)
\* the two lowercase hex digits of the byte with value n
hex_byte(n) == << HexLower[(n \div 16) + 1], HexLower[(n % 16) + 1] >>

RECURSIVE hex_encode(_)
\* data.encode("hex"): two lowercase hex digits per byte
hex_encode(data) ==
  IF data = <<>> THEN <<>> ELSE hex_byte(ord(Head(data))) \o hex_encode(Tail(data))

\* the value of a hex digit of either case, 0 for any other byte
HexVal(c) == First({i \in 1..16 : HexLower[i] = c \/ HexUpper[i] = c}) - 1

IsHex(c) == \E i \in 1..16 : HexLower[i] = c \/ HexUpper[i] = c

\* a decoder that takes what it can: the complete pairs of hex digits, any other
\* byte read as 0
hex_decode_lenient(string) ==
  Ok([i \in 1..(Len(string) \div 2) |->
        chr(16 * HexVal(string[2 * i - 1]) + HexVal(string[2 * i]))])

\* string.decode("hex"): TypeError on an odd length or a non-hex digit
hex_decode(string) ==
  IF Len(string) % 2 = 1 THEN Raise("TypeError")
  ELSE IF \E i \in 1..Len(string) : ~IsHex(string[i]) THEN Raise("TypeError")
  ELSE Ok([i \in 1..(Len(string) \div 2) |->
             chr(16 * HexVal(string[2 * i - 1]) + HexVal(string[2 * i]))])

(***************************************************************************)
(* The "utf8" codec.                                                       *)
(***************************************************************************)
\* the UTF-8 bytes of one code point
utf8_encode_cp(cp) ==
  IF cp < 128 THEN << chr(cp) >>
  ELSE IF cp < 2048 THEN << chr(192 + (cp \div 64)), chr(128 + (cp % 64)) >>
  ELSE IF cp < 65536
    THEN << chr(224 + (cp \div 4096)), chr(128 + ((cp \div 64) % 64)), chr(128 + (cp % 64)) >>
  ELSE << chr(240 + (cp \div 262144)), chr(128 + ((cp \div 4096) % 64)),
          chr(128 + ((cp \div 64) % 64)), chr(128 + (cp % 64)) >>

RECURSIVE utf8_encode(_)
\* value.encode("utf8")
utf8_encode(u) ==
  IF u = <<>> THEN <<>> ELSE utf8_encode_cp(Head(u)) \o utf8_encode(Tail(u))

\* the length of the sequence a lead byte announces, 0 for a byte that cannot lead
utf8_seqlen(b) ==
  IF b < 128 THEN 1
  ELSE IF b >= 194 /\ b < 224 THEN 2
  ELSE IF b >= 224 /\ b < 240 THEN 3
  ELSE IF b >= 240 /\ b < 245 THEN 4
  ELSE 0

\* the code point of the sequence of byte values b
utf8_cp(b) ==
  IF Len(b) = 1 THEN b[1]
  ELSE IF Len(b) = 2 THEN (b[1] - 192) * 64 + (b[2] - 128)
  ELSE IF Len(b) = 3 THEN (b[1] - 224) * 4096 + (b[2] - 128) * 64 + (b[3] - 128)
  ELSE (b[1] - 240) * 262144 + (b[2] - 128) * 4096 + (b[3] - 128) * 64 + (b[4] - 128)

\* a continuation byte is 10xxxxxx; the shortest form is required
utf8_valid(b, cp) ==
  /\ \A i \in 2..Len(b) : b[i] >= 128 /\ b[i] < 192
  /\ ~(Len(b) = 3 /\ cp < 2048)
  /\ ~(Len(b) = 4 /\ (cp < 65536 \/ cp > 1114111))

\* the decoded head followed by the decoded rest
utf8_cons(cp, rest) == IF IsOk(rest) THEN Ok(<<cp>> \o rest.v) ELSE rest

RECURSIVE utf8_decode(_)
\* decoding s whose first sequence is n bytes long, with byte values b
utf8_decode_seq(s, n, b) ==
  IF n = 0 \/ Len(s) < n THEN Raise("UnicodeDecodeError")
  ELSE IF ~utf8_valid(b, utf8_cp(b)) THEN Raise("UnicodeDecodeError")
  ELSE utf8_cons(utf8_cp(b), utf8_decode(From(s, n + 1)))

\* the first n bytes of s (fewer when s is shorter) as byte values
utf8_head(s, n) == [i \in 1..(IF n <= Len(s) THEN n ELSE Len(s)) |-> ord(s[i])]

\* decoding a non-empty s whose lead byte announces n bytes
utf8_decode_lead(s, n) == utf8_decode_seq(s, n, utf8_head(s, n))

\* string.decode("utf8"): UnicodeDecodeError on a malformed sequence
utf8_decode(s) ==
  IF s = <<>> THEN Ok(<<>>) ELSE utf8_decode_lead(s, utf8_seqlen(ord(s[1])))

\* str.decode("ascii"), the implicit conversion of a str to unicode
ascii_decode(s) ==
  IF \E i \in 1..Len(s) : ord(s[i]) >= 128 THEN Raise("UnicodeDecodeError")
  ELSE Ok([i \in 1..Len(s) |-> ord(s[i])])

\* unicode.encode("ascii"), the implicit conversion of a unicode to str
ascii_encode(u) ==
  IF \E i \in 1..Len(u) : u[i] >= 128 THEN Raise("UnicodeEncodeError")
  ELSE Ok([i \in 1..Len(u) |-> chr(u[i])])

(***************************************************************************)
(* int() and str() of an integer.                                          *)
(***************************************************************************)
RECURSIVE lstrip(_)
lstrip(s) == IF s # <<>> /\ IsSpace(Head(s)) THEN lstrip(Tail(s)) ELSE s

RECURSIVE rstrip(_)
rstrip(s) ==
  IF s # <<>> /\ IsSpace(s[Len(s)]) THEN rstrip(SubSeq(s, 1, Len(s) - 1)) ELSE s

RECURSIVE digits_value(_)
\* the number a sequence of decimal digits denotes
digits_value(d) ==
  IF d = <<>> THEN 0
  ELSE 10 * digits_value(SubSeq(d, 1, Len(d) - 1)) + (ord(d[Len(d)]) - 48)

\* the digits d with their sign: digits only, and at least one
int_of_digits(negative, d) ==
  IF d = <<>> \/ \E i \in 1..Len(d) : ~IsDigit(d[i]) THEN Raise("ValueError")
  ELSE Ok(IF negative THEN 0 - digits_value(d) ELSE digits_value(d))

\* the stripped literal t: one optional sign, then the digits
int_of_stripped(t) ==
  IF t # <<>> /\ (t[1] = "-" \/ t[1] = "+")
    THEN int_of_digits(t[1] = "-", Tail(t))
    ELSE int_of_digits(FALSE, t)

\* int(string): surrounding whitespace and one sign are accepted, then digits only
int_of_str(string) == int_of_stripped(rstrip(lstrip(string)))

RECURSIVE nat_digits(_)
nat_digits(n) ==
  IF n < 10 THEN << chr(48 + n) >> ELSE nat_digits(n \div 10) \o << chr(48 + (n % 10)) >>

\* str(n) of an integer
str_of_int(n) == IF n < 0 THEN <<"-">> \o nat_digits(0 - n) ELSE nat_digits(n)

(***************************************************************************)
(* urlparse: urlsplit, urlparse, urlunsplit, urlunparse.                   *)
(***************************************************************************)
uses_netloc ==
  { <<"f", "t", "p">>, <<"h", "t", "t", "p">>, <<"g", "o", "p", "h", "e", "r">>,
    <<"n", "n", "t", "p">>, <<"t", "e", "l", "n", "e", "t">>, <<"i", "m", "a", "p">>,
    <<"w", "a", "i", "s">>, <<"f", "i", "l", "e">>, <<"m", "m", "s">>,
    <<"h", "t", "t", "p", "s">>, <<"s", "h", "t", "t", "p">>, <<"s", "n", "e", "w", "s">>,
    <<"p", "r", "o", "s", "p", "e", "r", "o">>, <<"r", "t", "s", "p">>,
    <<"r", "t", "s", "p", "u">>, <<"r", "s", "y", "n", "c">>, <<>>, <<"s", "v", "n">>,
    <<"s", "v", "n", "+", "s", "s", "h">>, <<"s", "f", "t", "p">>, <<"n", "f", "s">>,
    <<"g", "i", "t">>, <<"g", "i", "t", "+", "s", "s", "h">> }

uses_params ==
  { <<"f", "t", "p">>, <<"h", "d", "l">>, <<"p", "r", "o", "s", "p", "e", "r", "o">>,
    <<"h", "t", "t", "p">>, <<"i", "m", "a", "p">>, <<"h", "t", "t", "p", "s">>,
    <<"s", "h", "t", "t", "p">>, <<"r", "t", "s", "p">>, <<"r", "t", "s", "p", "u">>,
    <<"s", "i", "p">>, <<"s", "i", "p", "s">>, <<"m", "m", "s">>, <<>>,
    <<"s", "f", "t", "p">>, <<"t", "e", "l">> }

scheme_chars(c) == IsAlpha(c) \/ IsDigit(c) \/ c \in {"+", "-", "."}

S_http == <<"h", "t", "t", "p">>

S_file == <<"f", "i", "l", "e">>

\* url cut in two before index delim; delim = 0 stands for the end of url
splitnetloc_at(url, delim) ==
  IF delim = 0 THEN [netloc |-> From(url, 3), url |-> <<>>]
  ELSE [netloc |-> SubSeq(url, 3, delim - 1), url |-> From(url, delim)]

\* _splitnetloc(url, 2): the domain runs from the third character to the first of / ? #
splitnetloc(url) ==
  splitnetloc_at(url, First({i \in 3..Len(url) : url[i] \in {"/", "?", "#"}}))

\* the netloc must hold both brackets or neither
splitrest_done(scheme, netloc, url, query, fragment) ==
  IF Has(netloc, "[") # Has(netloc, "]") THEN Raise("ValueError")
  ELSE Ok([scheme |-> scheme, netloc |-> netloc, path |-> url,
           query |-> query, fragment |-> fragment])

\* the query follows the first ? (index q, 0 when absent)
splitrest_query(scheme, netloc, url, fragment, q) ==
  splitrest_done(scheme, netloc,
                 IF q > 0 THEN SubSeq(url, 1, q - 1) ELSE url,
                 IF q > 0 THEN From(url, q + 1) ELSE <<>>,
                 fragment)

\* the fragment follows the first # (index h, 0 when absent)
splitrest_fragment(scheme, netloc, url, h) ==
  splitrest_query(scheme, netloc,
                  IF h > 0 THEN SubSeq(url, 1, h - 1) ELSE url,
                  IF h > 0 THEN From(url, h + 1) ELSE <<>>,
                  find(IF h > 0 THEN SubSeq(url, 1, h - 1) ELSE url, "?", 1))

\* the url after its netloc sn.netloc
splitrest_netloc(scheme, sn) ==
  splitrest_fragment(scheme, sn.netloc, sn.url, find(sn.url, "#", 1))

\* urlsplit once the scheme is decided: the netloc, the fragment, the query
splitrest(scheme, url) ==
  splitrest_netloc(scheme,
                   IF startswith(url, <<"/", "/">>) THEN splitnetloc(url)
                   ELSE [netloc |-> <<>>, url |-> url])

\* url[:i] is a scheme: "http", or scheme characters not followed by a port number
is_scheme(pre, rest) ==
  \/ pre = S_http
  \/ /\ \A k \in 1..Len(pre) : scheme_chars(pre[k])
     /\ (rest = <<>> \/ \E k \in 1..Len(rest) : ~IsDigit(rest[k]))

\* urlsplit with the scheme found (pre, lower-cased) or not
urlsplit_scheme(url, pre, rest, found) ==
  splitrest(IF found THEN lower(pre) ELSE <<>>, IF found THEN rest ELSE url)

\* urlsplit with the first colon at index i (0 when absent)
urlsplit_colon(url, i) ==
  urlsplit_scheme(url, SubSeq(url, 1, i - 1), From(url, i + 1),
                  i >= 2 /\ is_scheme(SubSeq(url, 1, i - 1), From(url, i + 1)))

\* urlparse.urlsplit(url)
urlsplit(url) == urlsplit_colon(url, find(url, ":", 1))

\* url cut at the semicolon at index i (0 when absent)
splitparams_at(url, i) ==
  IF i = 0 THEN [url |-> url, params |-> <<>>]
  ELSE [url |-> SubSeq(url, 1, i - 1), params |-> From(url, i + 1)]

\* _splitparams(url): the parameters follow the first ; of the last segment
splitparams(url) ==
  splitparams_at(url, find(url, ";", IF Has(url, "/") THEN rfind(url, "/") ELSE 1))

\* the six components from the five of urlsplit and the split path
urlparse_tuple(t, sp) ==
  [scheme |-> t.scheme, netloc |-> t.netloc, path |-> sp.url,
   params |-> sp.params, query |-> t.query, fragment |-> t.fragment]

\* urlparse of the result r of urlsplit
urlparse_split(r) ==
  IF ~IsOk(r) THEN r
  ELSE Ok(urlparse_tuple(r.v, IF r.v.scheme \in uses_params /\ Has(r.v.path, ";")
                                THEN splitparams(r.v.path)
                                ELSE [url |-> r.v.path, params |-> <<>>]))

\* urlparse.urlparse(url)
urlparse(url) == urlparse_split(urlsplit(url))

\* the scheme, the query and the fragment around the netloc and path u
urlunsplit_rest(scheme, u, query, fragment) ==
  (IF scheme # <<>> THEN scheme \o <<":">> ELSE <<>>) \o u
    \o (IF query # <<>> THEN <<"?">> \o query ELSE <<>>)
    \o (IF fragment # <<>> THEN <<"#">> \o fragment ELSE <<>>)

\* urlparse.urlunsplit((scheme, netloc, url, query, fragment))
urlunsplit(scheme, netloc, url, query, fragment) ==
  urlunsplit_rest(scheme,
    IF netloc # <<>>
         \/ (scheme # <<>> /\ scheme \in uses_netloc /\ ~startswith(url, <<"/", "/">>))
      THEN <<"/", "/">> \o netloc
             \o (IF url # <<>> /\ url[1] # "/" THEN <<"/">> ELSE <<>>) \o url
      ELSE url,
    query, fragment)

\* urlparse.urlunparse(components)
urlunparse(c) ==
  urlunsplit(c.scheme, c.netloc,
             IF c.params # <<>> THEN c.path \o <<";">> \o c.params ELSE c.path,
             c.query, c.fragment)

(***************************************************************************)
(* posixpath.normpath, posixpath.join, urllib.quote.                       *)
(***************************************************************************)
\* a loop that drops the empty components alone
normstep_separators_only(new_comps, comp, initial_slashes) ==
  IF comp = <<>> THEN new_comps ELSE new_comps \o <<comp>>

\* one turn of the loop of normpath: skip "" and ".", push, or pop on ".."
normstep(new_comps, comp, initial_slashes) ==
  IF comp = <<>> \/ comp = <<".">> THEN new_comps
  ELSE IF comp # <<".", ".">>
          \/ (initial_slashes = 0 /\ new_comps = <<>>)
          \/ (new_comps # <<>> /\ new_comps[Len(new_comps)] = <<".", ".">>)
    THEN new_comps \o <<comp>>
  ELSE IF new_comps # <<>> THEN SubSeq(new_comps, 1, Len(new_comps) - 1)
  ELSE new_comps

RECURSIVE normcomps(_, _, _)
\* the loop of normpath over the components
normcomps(comps, new_comps, initial_slashes) ==
  IF comps = <<>> THEN new_comps
  ELSE normcomps(Tail(comps), normstep(new_comps, Head(comps), initial_slashes),
                 initial_slashes)

\* path or "."
path_or_dot(path) == IF path = <<>> THEN <<".">> ELSE path

\* normpath of a path that begins with initial_slashes slashes (two only when exactly two)
normpath_from(path, initial_slashes) ==
  path_or_dot([i \in 1..initial_slashes |-> "/"]
                \o joinWith("/", normcomps(split(path, "/"), <<>>, initial_slashes)))

\* posixpath.normpath(path)
normpath(path) ==
  IF path = <<>> THEN <<".">>
  ELSE normpath_from(path,
         IF ~startswith(path, <<"/">>) THEN 0
         ELSE IF startswith(path, <<"/", "/">>) /\ ~startswith(path, <<"/", "/", "/">>)
           THEN 2
         ELSE 1)

\* posixpath.join(a, b)
join(a, b) ==
  IF startswith(b, <<"/">>) THEN b
  ELSE IF a = <<>> \/ endswith(a, <<"/">>) THEN a \o b
  ELSE a \o <<"/">> \o b

\* urllib.always_safe plus the default safe="/"
quote_safe(c) == IsAlpha(c) \/ IsDigit(c) \/ c \in {"_", ".", "-", "/"}

\* %XX, upper-case hex, of the byte with value n
quote_byte(n) == << "%", HexUpper[(n \div 16) + 1], HexUpper[(n % 16) + 1] >>

RECURSIVE quote(_)
\* urllib.quote(s): every byte outside the safe set becomes %XX
quote(s) ==
  IF s = <<>> THEN <<>>
  ELSE (IF quote_safe(Head(s)) THEN << Head(s) >> ELSE quote_byte(ord(Head(s))))
       \o quote(Tail(s))

(***************************************************************************)
(* The classes.  A Python value carries its type in t and its payload in a *)
(* field of its own: a str in s, a unicode in u, an int in n, a bool in b. *)
(* An instance of an RDFValue class has t = the class and its value        *)
(* attribute, itself a Python value, in value.                             *)
(***************************************************************************)
Classes == {"RDFBytes", "XSDString", "XSDInteger", "URN"}

\* the components Parse returns from those of urlparse and the normalized path
Parse_normalized(c, np) ==
  [c EXCEPT !.path = IF np = <<".">> THEN <<>> ELSE np,
            !.scheme = IF c.scheme = <<>> THEN S_file ELSE c.scheme]

\* Parse of the result r of urlparse
Parse_components(r) ==
  IF ~IsOk(r) THEN r ELSE Ok(Parse_normalized(r.v, normpath(r.v.path)))

\* URN.Parse
Parse(u) == Parse_components(urlparse(u.value.s))

\* URN.SerializeToString of the result of Parse
URN_unparse(components) ==
  IF ~IsOk(components) THEN components ELSE Ok(Str(urlunparse(components.v)))

\* SerializeToString of each class
SerializeToString(o) ==
  CASE o.t = "RDFBytes"   -> Ok(Str(hex_encode(o.value.s)))
    [] o.t = "XSDString"  -> Ok(Str(utf8_encode(o.value.u)))
    [] o.t = "XSDInteger" -> Ok(Str(str_of_int(o.value.n)))
    [] o.t = "URN"        -> URN_unparse(Parse(o))

\* str(x): RDFValue.__str__ for an instance
py_str(x) ==
  CASE x.t = "str"     -> Ok(x)
    [] x.t = "unicode" -> AsStr(ascii_encode(x.u))
    [] x.t = "int"     -> Ok(Str(str_of_int(x.n)))
    [] x.t = "None"    -> Ok(Str(<<"N", "o", "n", "e">>))
    [] x.t \in Classes -> SerializeToString(x)

\* unicode(s) of the result r of str(x)
unicode_of_str(r) == IF ~IsOk(r) THEN r ELSE AsUni(ascii_decode(r.v.s))

\* unicode(x): XSDString.__unicode__ for an XSDString, str(x) decoded for the rest
py_unicode(x) ==
  IF x.t = "unicode" THEN Ok(x)
  ELSE IF x.t = "XSDString" THEN Ok(x.value)
  ELSE unicode_of_str(py_str(x))

\* int(s) of the result r of encoding a unicode
int_of_encoded(r) == IF ~IsOk(r) THEN r ELSE AsInt(int_of_str(r.v))

\* int(x): XSDInteger.__int__ for an XSDInteger
py_int(x) ==
  CASE x.t = "int"        -> Ok(x)
    [] x.t = "XSDInteger" -> Ok(x.value)
    [] x.t = "str"        -> int_of_encoded(Ok(x.s))
    [] x.t = "unicode"    -> int_of_encoded(ascii_encode(x.u))
    [] OTHER              -> Raise("TypeError")

\* the value attribute Set of class cls assigns, or the exception
Set_value(cls, data) ==
  CASE cls = "RDFBytes"   -> Ok(data)
    [] cls = "XSDString"  -> py_unicode(data)
    [] cls = "XSDInteger" -> py_int(data)
    [] cls = "URN"        -> IF data.t = "URN" THEN Ok(data.value) ELSE py_str(data)

\* the instance with its value attribute assigned, or the exception
Set_assign(o, r) == IF ~IsOk(r) THEN r ELSE Ok([o EXCEPT !.value = r.v])

\* Set of each class: the instance after the call, or the exception
Set(o, data) == Set_assign(o, Set_value(o.t, data))

\* RDFValue.__init__: cls(initializer); RDFBytes.value is "" before Set assigns it
New(cls, initializer) == Set(Obj(cls, Str(<<>>)), initializer)

\* the argument UnSerializeFromString of class cls hands to Set, or the exception
UnSerialize_data(cls, string) ==
  CASE cls = "RDFBytes"   -> AsStr(hex_decode(string))
    [] cls = "XSDString"  -> AsUni(utf8_decode(string))
    [] cls = "XSDInteger" -> py_int(Str(string))
    [] cls = "URN"        -> py_int(Str(string))

\* self.Set(data) of the decoded data r
UnSerialize_set(o, r) == IF ~IsOk(r) THEN r ELSE Set(o, r.v)

\* UnSerializeFromString of each class: the instance after the call, or the exception
UnSerializeFromString(o, string) == UnSerialize_set(o, UnSerialize_data(o.t, string))

\* sa == sb of the results of two str() calls
str_eq(sa, sb) ==
  IF ~IsOk(sa) THEN sa
  ELSE IF ~IsOk(sb) THEN sb
  ELSE Ok(Bool(sa.v = sb.v))

\* RDFValue.__eq__, inherited by XSDString and URN: str(self) == str(other)
RDFValue_eq(a, b) == str_eq(py_str(a), py_str(b))

\* XSDInteger.__eq__(b) for a b that is not an XSDInteger: self.value == b, where
\* int.__eq__ answers for a number and b's reflected __eq__ otherwise
int_eq(n, b) ==
  CASE b.t = "int"                  -> Ok(Bool(n = b))
    [] b.t = "RDFBytes"             -> Ok(None)
    [] b.t \in {"XSDString", "URN"} -> RDFValue_eq(b, n)
    [] OTHER                        -> Ok(Bool(FALSE))

\* a.__eq__(b) of each class
Eq(a, b) ==
  CASE a.t = "RDFBytes"   -> IF b.t = "RDFBytes" THEN Ok(Bool(a.value = b.value)) ELSE Ok(None)
    [] a.t = "XSDInteger" -> IF b.t = "XSDInteger" THEN Ok(Bool(a.value = b.value))
                             ELSE int_eq(a.value, b)
    [] a.t \in {"XSDString", "URN"} -> RDFValue_eq(a, b)

\* URN.Scheme of the result of Parse
Scheme_of(components) ==
  IF ~IsOk(components) THEN components ELSE Ok(Str(components.v.scheme))

\* URN.Scheme
Scheme(u) == Scheme_of(Parse(u))

\* a ToFilename that hands out the path whatever the scheme
ToFilename_any_scheme(components) ==
  IF ~IsOk(components) THEN components ELSE Ok(Str(components.v.path))

\* URN.ToFilename of the result of Parse
ToFilename_of(components) ==
  IF ~IsOk(components) THEN components
  ELSE IF components.v.scheme = S_file THEN Ok(Str(components.v.path))
  ELSE Ok(None)

\* URN.ToFilename
ToFilename(u) == ToFilename_of(Parse(u))

\* URN.Append of the parsed components and the component to join, quoted or not
Append_to(parsed, component) ==
  IF ~IsOk(parsed) THEN parsed
  ELSE New("URN", Str(urlunparse(
         [parsed.v EXCEPT !.path = normpath(join(parsed.v.path, component))])))

\* URN.Append(component, quote): the URN it returns
URN_Append(u, component, quoted) ==
  Append_to(Parse(u), IF quoted THEN quote(component) ELSE component)

\* a RelativePath that compares from the first difference on: the suffix of
\* urn_value past the length of value, whether value is a prefix or not
RelativePath_unchecked(value, urn_value) ==
  IF ~IsOk(value) THEN value
  ELSE IF ~IsOk(urn_value) THEN urn_value
  ELSE Ok(Str(From(urn_value.v.s, Len(value.v.s) + 1)))

\* URN.RelativePath of the two serialized forms
RelativePath_of(value, urn_value) ==
  IF ~IsOk(value) THEN value
  ELSE IF ~IsOk(urn_value) THEN urn_value
  ELSE IF startswith(urn_value.v.s, value.v.s)
    THEN Ok(Str(From(urn_value.v.s, Len(value.v.s) + 1)))
  ELSE Ok(None)

\* URN.RelativePath(urn)
RelativePath(u, urn) == RelativePath_of(SerializeToString(u), py_str(urn))

(***************************************************************************)
(* The registry: pyaff4.registry.RDF_TYPE_MAP, a dict from datatype tag to *)
(* class, a function whose domain is the set of registered tags.           *)
(***************************************************************************)
Tags == {"hexBinary", "string", "integer", "int", "long", "anyURI"}

\* the tags registered again after module initialisation
RegTags == {"string", "int", "anyURI"}

\* registry.RDF_TYPE_MAP as the registry module creates it
EmptyMap == [tag \in {} |-> "RDFBytes"]

\* an update that keeps the entry a tag already has (dict.setdefault)
dict_setdefault(m, tag, cls) ==
  [k \in (DOMAIN m) \cup {tag} |-> IF k \in DOMAIN m THEN m[k] ELSE cls]

\* RDF_TYPE_MAP.update({tag: cls})
dict_update(m, tag, cls) ==
  [k \in (DOMAIN m) \cup {tag} |-> IF k = tag THEN cls ELSE m[k]]

\* the registrations rdfvalue.py makes when it is imported
ModuleInit ==
  dict_update(dict_update(dict_update(dict_update(dict_update(EmptyMap,
    "hexBinary", "RDFBytes"), "string", "XSDString"), "integer", "XSDInteger"),
    "int", "XSDInteger"), "long", "XSDInteger")

\* RDF_TYPE_MAP.get(tag)
dict_get(m, tag) == IF tag \in DOMAIN m THEN [t |-> "class", c |-> m[tag]] ELSE None

(***************************************************************************)
(* Inputs.                                                                 *)
(***************************************************************************)
Strings(A, n) == UNION {[1..k -> A] : k \in 0..n}

BytesAlphabet == {"a", chr(0), chr(255)}

UnicodeAlphabet == {97, 233, 8364}

IntAlphabet == {"0", "7", "-", " ", "x"}

HexAlphabet == {"6", "1", "F", "z"}

Utf8Alphabet == {"a", chr(195), chr(169)}

URNAlphabet == {"/", ".", "a", ":", "?"}

URNSeeds ==
  { <<"f", "i", "l", "e", ":", "/", "a">>,
    <<"/", "/", "[">>,
    <<"f", "i", "l", "e", ":", "/", "a", "/", "b">>,
    <<"f", "i", "l", "e", ":", "/", "x">>,
    <<"f", "i", "l", "e", ":", "/", "a", "/", ".", "/", "b">>,
    <<"f", "i", "l", "e", ":", "/", "a", "/", ".", "/", "b", "/", ".", ".", "/", "c">>,
    <<"/", "a", "/", "b">>,
    <<"/", "/", "/", "/", "b">>,
    <<"a", ";", "p">>,
    <<"h", "t", "t", "p", ":", "/", "/", "h", "/", "p", "?", "q", "#", "f">> }

\* the initializers the first object is built from
InitData(cls) ==
  CASE cls = "RDFBytes"   -> {Str(s) : s \in Strings(BytesAlphabet, MaxLen)}
    [] cls = "XSDString"  -> {Uni(u) : u \in Strings(UnicodeAlphabet, MaxLen)}
    [] cls = "XSDInteger" -> {Str(s) : s \in Strings(IntAlphabet, MaxLen)} \cup {Int_(42)}
    [] cls = "URN"        -> {Str(s) : s \in Strings(URNAlphabet, MaxLen) \cup URNSeeds}

\* the initializers the second object is built from
SeedData(cls) ==
  CASE cls = "RDFBytes"   -> {Str(<<>>), Str(<<"a", "b">>)}
    [] cls = "XSDString"  -> {Uni(<<52, 50>>), Str(<<"6", "1", "6", "2">>)}
    [] cls = "XSDInteger" -> {Int_(42), Str(<<"x">>)}
    [] cls = "URN"        -> {Str(<<"f", "i", "l", "e", ":", "/", "a", "/", "b">>),
                              Str(<<"f", "i", "l", "e", ":", "/", "x">>)}

\* the strings handed to UnSerializeFromString
DeserInputs(cls) ==
  CASE cls = "RDFBytes"   -> Strings(HexAlphabet, MaxLen) \cup {<<"a", "b", "c">>}
    [] cls = "XSDString"  -> Strings(Utf8Alphabet, MaxLen)
    [] cls = "XSDInteger" -> Strings(IntAlphabet, MaxLen)
    [] cls = "URN"        -> {<<"4", "2">>, <<"f", "i", "l", "e", ":", "/", "/", "/", "a">>}

\* the components handed to Append
Components ==
  { <<"b">>, <<"b", " ", "c">>, <<"b", "/", "c">>, <<"/", "b">>, <<".", ".">>, <<>> }

BareInts == {42, -7}

\* the arguments of the constructor calls that build the first object
InitArgs == UNION {{<<cls, data>> : data \in InitData(cls)} : cls \in Classes}


(***************************************************************************)
(* The calls.  self is the object under test, other a second object (None  *)
(* until one is built), aliased whether the two names denote one object,   *)
(* last the latest call with its arguments and its result.  The calls that *)
(* read self alone are made while there is no second object; the calls on  *)
(* a pair are made once there is one.                                      *)
(***************************************************************************)
Call(op, args, res) == [op |-> op, args |-> args, res |-> res]

Target(name) == IF name = "self" THEN self ELSE other

Peer(name) == IF name = "self" THEN other ELSE self

\* what a method without a return statement hands back, or the exception
Returns(r) == IF IsOk(r) THEN Ok(None) ELSE r

\* other = cls(data), the constructor having produced r: a new object
Constructed(cls, data, r) ==
  /\ other' = IF IsOk(r) THEN r.v ELSE other
  /\ aliased' = IF IsOk(r) THEN FALSE ELSE aliased
  /\ last' = Call("__init__", <<cls, data>>, Returns(r))
  /\ UNCHANGED <<self, RDF_TYPE_MAP, regLog>>

\* other = cls(data)
CallInit(cls, data) == Constructed(cls, data, New(cls, data))

\* other = cls(string) for the serialized string of self
CallInitFrom(string) ==
  /\ IsOk(string)
  /\ CallInit(self.t, string.v)

\* the second object is built from a seed, as a copy of self, or from self's
\* serialized string
Construct ==
  \/ \E cls \in Classes : \E data \in SeedData(cls) : CallInit(cls, data)
  \/ /\ self.t = "URN"
     /\ CallInit("URN", self)
  \/ CallInitFrom(SerializeToString(self))

\* self.SerializeToString()
CallSerializeToString ==
  /\ other = None
  /\ last' = Call("SerializeToString", <<>>, SerializeToString(self))
  /\ UNCHANGED <<self, other, aliased, RDF_TYPE_MAP, regLog>>

\* Target(name).UnSerializeFromString(string) has ended in r: the object named, and
\* the other name with it when the two denote one object, holds the new value
Deserialized(name, string, r) ==
  /\ self' = IF IsOk(r) /\ (name = "self" \/ aliased) THEN r.v ELSE self
  /\ other' = IF IsOk(r) /\ name = "other" THEN r.v ELSE other
  /\ last' = Call("UnSerializeFromString", <<name, Str(string)>>, Returns(r))
  /\ UNCHANGED <<aliased, RDF_TYPE_MAP, regLog>>

\* other.UnSerializeFromString(string) for the serialized string of self
RoundTrip(string) ==
  /\ IsOk(string)
  /\ Deserialized("other", string.v.s, UnSerializeFromString(other, string.v.s))

\* self.UnSerializeFromString(string) before a second object is built, and
\* other.UnSerializeFromString(self.SerializeToString()) on a second instance of
\* self's class
CallUnSerializeFromString ==
  \/ /\ other = None
     /\ \E string \in DeserInputs(self.t) :
          Deserialized("self", string, UnSerializeFromString(self, string))
  \/ /\ other # None
     /\ other.t = self.t
     /\ RoundTrip(SerializeToString(self))

\* the comparisons made: self == other and other == self once there is a second
\* object, self == n for a bare integer n before
EqCalls ==
  IF other # None
    THEN {[args |-> <<name>>, x |-> Target(name), y |-> Peer(name)] : name \in {"self", "other"}}
    ELSE {[args |-> <<"self", Int_(n)>>, x |-> self, y |-> Int_(n)] : n \in BareInts}

\* x == y
CallEq ==
  /\ \E c \in EqCalls : last' = Call("__eq__", c.args, Eq(c.x, c.y))
  /\ UNCHANGED <<self, other, aliased, RDF_TYPE_MAP, regLog>>

\* an Append in place: the receiver takes the value of the URN returned
Append_in_place(u, r) == IF IsOk(r) THEN r.v ELSE u

\* the receiver once Append has ended in r: Append assigns no attribute of self
Append_receiver(u, r) == u

\* other = self.Append(component, quote) has ended in r; URN(...) is a new object
Appended(component, quoted, r) ==
  /\ self' = Append_receiver(self, r)
  /\ other' = IF IsOk(r) THEN r.v ELSE other
  /\ aliased' = IF IsOk(r) THEN FALSE ELSE aliased
  /\ last' = Call("Append", <<Str(component), Bool(quoted)>>, r)
  /\ UNCHANGED <<RDF_TYPE_MAP, regLog>>

\* other = self.Append(component, quote), as the first call on a pair or after
\* another Append on the same receiver
CallAppend(component, quoted) ==
  /\ self.t = "URN"
  /\ (other = None \/ last.op = "Append")
  /\ Appended(component, quoted, URN_Append(self, component, quoted))

\* self.RelativePath(other), other.RelativePath(self)
CallRelativePath ==
  /\ other # None
  /\ \E name \in {"self", "other"} :
       /\ Target(name).t = "URN"
       /\ last' = Call("RelativePath", <<name>>, RelativePath(Target(name), Peer(name)))
  /\ UNCHANGED <<self, other, aliased, RDF_TYPE_MAP, regLog>>

\* self.Scheme()
CallScheme ==
  /\ self.t = "URN"
  /\ other = None
  /\ last' = Call("Scheme", <<>>, Scheme(self))
  /\ UNCHANGED <<self, other, aliased, RDF_TYPE_MAP, regLog>>

\* self.ToFilename()
CallToFilename ==
  /\ self.t = "URN"
  /\ other = None
  /\ last' = Call("ToFilename", <<>>, ToFilename(self))
  /\ UNCHANGED <<self, other, aliased, RDF_TYPE_MAP, regLog>>

\* self.Parse()
CallParse ==
  /\ self.t = "URN"
  /\ other = None
  /\ last' = Call("Parse", <<>>, Parse(self))
  /\ UNCHANGED <<self, other, aliased, RDF_TYPE_MAP, regLog>>

\* the caller goes on with the URN it was returned: u = u.Append(c)
Rebind ==
  /\ last.op = "Append"
  /\ IsOk(last.res)
  /\ Len(other.value.s) <= MaxURNLen
  /\ self' = other
  /\ other' = None
  /\ aliased' = FALSE
  /\ last' = Call("rebind", <<>>, Ok(None))
  /\ UNCHANGED <<RDF_TYPE_MAP, regLog>>

\* the objects the first constructor call can leave
InitObjects == {r.v : r \in {x \in {New(a[1], a[2]) : a \in InitArgs} : IsOk(x)}}

Init ==
  /\ self \in InitObjects
  /\ other = None
  /\ aliased = FALSE
  /\ last = Call("__init__", <<>>, Ok(None))
  /\ RDF_TYPE_MAP = ModuleInit
  /\ regLog = <<>>

Next ==
  \/ Construct
  \/ CallSerializeToString
  \/ CallUnSerializeFromString
  \/ CallEq
  \/ \E component \in Components : \E quoted \in BOOLEAN : CallAppend(component, quoted)
  \/ CallRelativePath
  \/ CallScheme
  \/ CallToFilename
  \/ CallParse
  \/ Rebind

Spec == Init /\ [][Next]_vars

(***************************************************************************)
(* The registry on its own: registrations after module initialisation,     *)
(* lookups, and values built through a looked-up constructor.  regLog is   *)
(* the history of the later registrations, self the latest value built.    *)
(***************************************************************************)
\* RDF_TYPE_MAP.update({tag: cls}) by a later registration
Register(tag, cls) ==
  /\ Len(regLog) < MaxRegs
  /\ RDF_TYPE_MAP' = dict_update(RDF_TYPE_MAP, tag, cls)
  /\ regLog' = Append(regLog, <<tag, cls>>)
  /\ last' = Call("register", <<tag, cls>>, Ok(None))
  /\ UNCHANGED <<self, other, aliased>>

\* RDF_TYPE_MAP.get(tag)
Lookup(tag) ==
  /\ last' = Call("lookup", <<tag>>, Ok(dict_get(RDF_TYPE_MAP, tag)))
  /\ UNCHANGED <<self, other, aliased, RDF_TYPE_MAP, regLog>>

\* the value the constructor found under a tag builds: found(data), nothing for None
Build(found, data) == IF found = None THEN Ok(None) ELSE New(found.c, data)

\* self = RDF_TYPE_MAP.get(tag)(data) has ended in r
Built(tag, data, r) ==
  /\ self' = IF IsOk(r) THEN r.v ELSE self
  /\ last' = Call("build", <<tag, data>>, Returns(r))
  /\ UNCHANGED <<other, aliased, RDF_TYPE_MAP, regLog>>

\* the collaborator decodes a literal: RDF_TYPE_MAP.get(tag)(data) when tag is registered
BuildTyped(tag, data) == Built(tag, data, Build(dict_get(RDF_TYPE_MAP, tag), data))

LiteralData == {Str(<<"4", "2">>), Str(<<"6", "1">>)}

InitRegistry ==
  /\ self = None
  /\ other = None
  /\ aliased = FALSE
  /\ last = Call("import", <<>>, Ok(None))
  /\ RDF_TYPE_MAP = ModuleInit
  /\ regLog = <<>>

NextRegistry ==
  \/ \E tag \in RegTags : \E cls \in Classes : Register(tag, cls)
  \/ \E tag \in Tags : Lookup(tag)
  \/ \E tag \in Tags : \E data \in LiteralData : BuildTyped(tag, data)

SpecRegistry == InitRegistry /\ [][NextRegistry]_vars

(***************************************************************************)
(* Properties of the value classes, stated on the latest call.             *)
(***************************************************************************)
\* the object the latest call was made on, and its argument
Receiver == Target(last.args[1])

Argument == Peer(last.args[1])

\* the serialized string of an object that has one
Serialized(o) == SerializeToString(o).v.s

\* the scheme, authority, path, query and fragment of parsed components
Five(c) == <<c.scheme, c.netloc, c.path, c.query, c.fragment>>

\* the segments of a path: the non-empty strings between its separators
NonEmpty(s) == s # <<>>

Segments(path) == SelectSeq(split(path, "/"), NonEmpty)

\* the number of separators a path begins with
LeadingSlashes(path) ==
  CHOOSE n \in 0..Len(path) :
    /\ \A i \in 1..n : path[i] = "/"
    /\ (n = Len(path) \/ path[n + 1] # "/")

\* the in-memory values of two objects of one class are equal
SameValue(a, b) ==
  /\ a.t = b.t
  /\ IF a.t = "URN"
       THEN IsOk(SerializeToString(a)) /\ SerializeToString(a) = SerializeToString(b)
       ELSE a.value = b.value

\* C1, as the specification states it: whenever UnSerializeFromString has been
\* called on a second instance of self's class with the string returned by
\* self.SerializeToString(), the call has succeeded and the instance equals self.
C1_RoundTripEveryVariant ==
  (last.op = "UnSerializeFromString" /\ last.args[1] = "other")
    => /\ IsOk(last.res)
       /\ SameValue(other, self)
       /\ Eq(other, self) = Ok(Bool(TRUE))

\* C2, as the specification states it: whenever a URN has been constructed from the
\* serialized string of the URN self, it serializes to the same string as self and
\* Parse gives the same scheme, authority, path, query and fragment for both.
C2_NormalizationIdempotent ==
  (/\ last.op = "__init__"
   /\ IsOk(last.res)
   /\ self.t = "URN"
   /\ IsOk(SerializeToString(self))
   /\ last.args = <<"URN", SerializeToString(self).v>>)
    => /\ SerializeToString(other) = SerializeToString(self)
       /\ Five(Parse(other).v) = Five(Parse(self).v)

\* C3, as the specification states it: the path Parse returns has no "." segment, no
\* ".." segment and no two adjacent separators, and is not ".".
C3_NoDotSegmentsNoDoubleSlash ==
  (last.op = "Parse" /\ IsOk(last.res))
    => /\ \A i \in 1..Len(Segments(last.res.v.path)) :
            Segments(last.res.v.path)[i] \notin {<<".">>, <<".", ".">>}
       /\ \A i \in 1..(Len(last.res.v.path) - 1) :
            ~(last.res.v.path[i] = "/" /\ last.res.v.path[i + 1] = "/")
       /\ last.res.v.path # <<".">>

\* C3, amended: the path Parse returns is in POSIX lexical normal form.  It is not
\* "."; it begins with at most two separators; past them it is empty or a list of
\* non-empty segments joined by single separators, none of them "."; and ".."
\* occurs only in a path that begins with no separator, as a leading segment
\* preceded by ".." segments alone.
C3_PosixNormalForm ==
  (last.op = "Parse" /\ IsOk(last.res))
    => LET path == last.res.v.path
           lead == LeadingSlashes(path)
           rest == From(path, lead + 1)
           segs == IF rest = <<>> THEN <<>> ELSE split(rest, "/")
       IN  /\ path # <<".">>
           /\ lead <= 2
           /\ \A i \in 1..Len(segs) : segs[i] # <<>> /\ segs[i] # <<".">>
           /\ \A i \in 1..Len(segs) :
                segs[i] = <<".", ".">>
                  => (lead = 0 /\ \A j \in 1..(i - 1) : segs[j] = <<".", ".">>)

\* Parse has been called on URN("file:/a/./b/../c") and has returned the path "/a/c"
C3_Witness ==
  /\ last.op = "Parse"
  /\ self.value.s = <<"f", "i", "l", "e", ":", "/", "a", "/", ".", "/", "b", "/", ".", ".", "/", "c">>
  /\ IsOk(last.res)
  /\ last.res.v.path = <<"/", "a", "/", "c">>

\* C4, as the specification states it: whenever Append has returned for a non-empty
\* component with quote = True, the path of the URN returned is the path of the
\* receiver followed by exactly one new segment.
C4_QuotedAppendAddsOneSegment ==
  (/\ last.op = "Append"
   /\ last.args[2] = Bool(TRUE)
   /\ last.args[1].s # <<>>
   /\ IsOk(last.res))
    => LET old == Segments(Parse(self).v.path)
           new == Segments(Parse(last.res.v).v.path)
       IN  /\ Len(new) = Len(old) + 1
           /\ SubSeq(new, 1, Len(old)) = old

\* C5: every Append call leaves its receiver as it was (its stored value, its
\* serialized string, its scheme and its file name), whether it returns or raises,
\* and a call that returns hands back a URN that is another object than the
\* receiver; this holds for the first URN and for every URN an earlier Append
\* returned and the caller went on with.
C5_AppendLeavesReceiver ==
  [][last'.op = "Append"
       => /\ self'.value = self.value
          /\ SerializeToString(self') = SerializeToString(self)
          /\ Scheme(self') = Scheme(self)
          /\ ToFilename(self') = ToFilename(self)
          /\ IsOk(last'.res)
               => (last'.res.v.t = "URN" /\ other' = last'.res.v /\ ~aliased')]_vars

\* Append has returned a URN with another value than its receiver, which an earlier
\* Append had returned
C5_Witness ==
  /\ last.op = "Append"
  /\ IsOk(last.res)
  /\ self.value.s = <<"f", "i", "l", "e", ":", "/", "/", "/", "b">>
  /\ other.value.s = <<"f", "i", "l", "e", ":", "/", "/", "/", "b", "/", "b", "%", "2", "0", "c">>
  /\ ~aliased

C8_EqualOnlyWithinVariant ==
  (last.op = "__eq__" /\ Len(last.args) = 1 /\ last.res = Ok(Bool(TRUE)))
    => SameValue(Receiver, Argument)

\* the strings taken as malformed: for RDFBytes an odd length or a byte that
\* is no hex digit; for XSDInteger the empty string, whitespace alone, or digits
\* followed by a tail that holds more than whitespace
HexDigits == {HexLower[i] : i \in 1..16} \cup {HexUpper[i] : i \in 1..16}

DigitPrefix(s) == CHOOSE n \in 0..Len(s) :
                    /\ \A i \in 1..n : IsDigit(s[i])
                    /\ (n = Len(s) \/ ~IsDigit(s[n + 1]))

Malformed(cls, s) ==
  CASE cls = "RDFBytes"   -> Len(s) % 2 = 1 \/ \E i \in 1..Len(s) : s[i] \notin HexDigits
    [] cls = "XSDInteger" -> \/ s = <<>>
                             \/ \A i \in 1..Len(s) : IsSpace(s[i])
                             \/ /\ DigitPrefix(s) >= 1
                                /\ \E i \in (DigitPrefix(s) + 1)..Len(s) : ~IsSpace(s[i])
    [] OTHER              -> FALSE

\* C9: UnSerializeFromString of an RDFBytes or an XSDInteger on a malformed string
\* raises, and the object holds the value it held before the call.
C9_MalformedInputRejected ==
  [][(/\ last'.op = "UnSerializeFromString"
      /\ last'.args[1] = "self"
      /\ Malformed(self.t, last'.args[2].s))
       => (~IsOk(last'.res) /\ self' = self)]_vars

\* an RDFBytes has been handed "abc" and has raised, keeping its two bytes
C9_Witness ==
  /\ last.op = "UnSerializeFromString"
  /\ last.args = <<"self", Str(<<"a", "b", "c">>)>>
  /\ last.res = Raise("TypeError")
  /\ self = Obj("RDFBytes", Str(<<"a", chr(255)>>))

(***************************************************************************)
(* Properties of the registry.                                             *)
(***************************************************************************)
\* the registrations made so far, those of module initialisation first
Registrations ==
  << <<"hexBinary", "RDFBytes">>, <<"string", "XSDString">>, <<"integer", "XSDInteger">>,
     <<"int", "XSDInteger">>, <<"long", "XSDInteger">> >> \o regLog

\* the constructor of the latest registration of a tag, None for a tag never registered
MostRecent(tag) ==
  IF \E i \in 1..Len(Registrations) : Registrations[i][1] = tag
    THEN [t |-> "class",
          c |-> Registrations[Last({i \in 1..Len(Registrations) : Registrations[i][1] = tag})][2]]
    ELSE None

\* a value built through the constructor c from data ended as one built directly
\* does, and the two serialize and deserialize alike
BuiltLikeDirect(c, data) ==
  /\ last.res = Returns(New(c, data))
  /\ IsOk(last.res)
       => /\ self = New(c, data).v
          /\ SerializeToString(self) = SerializeToString(New(c, data).v)
          /\ \A string \in DeserInputs(c) :
               UnSerializeFromString(self, string) = UnSerializeFromString(New(c, data).v, string)

\* C10: after any registrations, the lookup of a tag gives the constructor of its
\* latest registration and None for a tag never registered; right after module
\* initialisation hexBinary, string, integer, int and long give RDFBytes, XSDString,
\* XSDInteger, XSDInteger and XSDInteger; a value built through a looked-up
\* constructor behaves as one built directly; and a registration raises nothing and
\* changes the entry of no other tag.
C10_RegistryLookup ==
  /\ [](/\ \A tag \in Tags : dict_get(RDF_TYPE_MAP, tag) = MostRecent(tag)
        /\ last.op = "lookup" => last.res = Ok(MostRecent(last.args[1]))
        /\ regLog = <<>>
             => /\ RDF_TYPE_MAP["hexBinary"] = "RDFBytes"
                /\ RDF_TYPE_MAP["string"] = "XSDString"
                /\ RDF_TYPE_MAP["integer"] = "XSDInteger"
                /\ RDF_TYPE_MAP["int"] = "XSDInteger"
                /\ RDF_TYPE_MAP["long"] = "XSDInteger"
                /\ DOMAIN RDF_TYPE_MAP = {"hexBinary", "string", "integer", "int", "long"}
        /\ (last.op = "build" /\ MostRecent(last.args[1]) # None)
             => BuiltLikeDirect(MostRecent(last.args[1]).c, last.args[2]))
  /\ [][last'.op = "register"
          => /\ IsOk(last'.res)
             /\ \A tag \in Tags \ {last'.args[1]} :
                  dict_get(RDF_TYPE_MAP', tag) = dict_get(RDF_TYPE_MAP, tag)]_vars

\* a tag registered twice, to two classes, has been looked up and has given the second
C10_Witness ==
  /\ Len(regLog) = 2
  /\ regLog[1][1] = regLog[2][1]
  /\ regLog[1][2] # regLog[2][2]
  /\ last.op = "lookup"
  /\ last.args[1] = regLog[2][1]
  /\ last.res = Ok([t |-> "class", c |-> regLog[2][2]])
====
